---- MODULE Spec2Model ----
(***************************************************************************)
(* Model of src/a.py: the function get_ip_from_tiktok_username and the     *)
(* module-level driver that calls it once and prints one line.             *)
(*                                                                         *)
(* Three specifications share the function's steps:                        *)
(*   Spec        a caller invoking the function MaxCalls times with        *)
(*               identifiers drawn from Identifiers (the function's        *)
(*               contract, statelessness across calls);                    *)
(*   DriverSpec  the module-level try/except of lines 34-39 (one run of    *)
(*               the script); DriverFairSpec adds the progress of a        *)
(*               sequential interpreter;                                   *)
(*   ScenarioSpec  lines 36-39 run on a given identifier instead of the    *)
(*               literal of line 35.                                       *)
(*                                                                         *)
(* Python text is modelled by TLA+ strings and built with \o, so that a    *)
(* message, a URL or a printed line is the text the code builds.           *)
(***************************************************************************)
EXTENDS Integers, Sequences, FiniteSets, TLC

VARIABLES
    pc,               \* line about to execute: "idle", "L23".."L39", "returned", "exit"
    username,         \* parameter of get_ip_from_tiktok_username (line 4)
    url,              \* local of the function (line 27)
    ip_address,       \* local of the function (line 28)
    exc,              \* exception in flight inside the function's try (lines 28-30)
    result,           \* how the current call ended: returned value or raised exception
    lookups,          \* calls of socket.gethostbyname made by the current call: <<[arg, answer]>>
    history,          \* completed calls: <<[username, lookups, result]>>
    tiktok_username,  \* module-level variable (line 35)
    main_ip_address,  \* module-level variable ip_address (line 36)
    stdout,           \* lines printed to standard output
    exit_status       \* -1 while the process runs, then the process's exit status

vars == <<pc, username, url, ip_address, exc, result, lookups, history,
          tiktok_username, main_ip_address, stdout, exit_status>>

funcLocals == <<username, url, ip_address, exc, result, lookups>>
driverVars == <<tiktok_username, main_ip_address, stdout, exit_status>>

-----------------------------------------------------------------------------
(* Bounds of the model.                                                    *)

\* Number of calls the caller of Spec makes.
MaxCalls == 2

-----------------------------------------------------------------------------
(* Python values.                                                          *)

PyNone == [type |-> "NoneType", i |-> 0, s |-> ""]
PyStr(text) == [type |-> "str", i |-> 0, s |-> text]
PyInt(n) == [type |-> "int", i |-> n, s |-> ""]
\* A name not bound yet.
Unbound == [type |-> "unbound", i |-> 0, s |-> ""]

\* Variant of Truth: only an absent identifier is rejected (`username is None`).
TruthNoneOnly(v) == v.type # "NoneType"

\* bool(v), as `not username` evaluates it (line 23).
Truth(v) ==
    CASE v.type = "NoneType" -> FALSE
      [] v.type = "str" -> v.s # ""
      [] v.type = "int" -> v.i # 0

Digit(d) ==
    CASE d = 0 -> "0" [] d = 1 -> "1" [] d = 2 -> "2" [] d = 3 -> "3" [] d = 4 -> "4"
      [] d = 5 -> "5" [] d = 6 -> "6" [] d = 7 -> "7" [] d = 8 -> "8" [] d = 9 -> "9"

RECURSIVE NatToStr(_)
NatToStr(n) == IF n < 10 THEN Digit(n) ELSE NatToStr(n \div 10) \o Digit(n % 10)

IntToStr(n) == IF n < 0 THEN "-" \o NatToStr(-n) ELSE NatToStr(n)

\* str(v): what an f-string replacement field {v} inserts (lines 27, 31, 37).
Str(v) ==
    CASE v.type = "str" -> v.s
      [] v.type = "int" -> IntToStr(v.i)
      [] v.type = "NoneType" -> "None"

\* Whether the one-character text c occurs in text.
HasChar(text, c) == \E k \in 1..Len(text) : SubSeq(text, k, k) = c

\* The quote repr() puts around a text: double quotes when the text has a
\* single quote and no double quote, single quotes otherwise.
ReprQuote(text) == IF HasChar(text, "'") /\ ~HasChar(text, "\"") THEN "\"" ELSE "'"

\* The characters of text from position k on as repr() writes them: the
\* backslash doubled, the enclosing quote and the control characters escaped.
RECURSIVE ReprChars(_, _, _)
ReprChars(text, k, quote) ==
    IF k > Len(text) THEN ""
    ELSE LET c == SubSeq(text, k, k) IN
         (CASE c = "\\" -> "\\\\"
            [] c = quote -> "\\" \o quote
            [] c = "\n" -> "\\n"
            [] c = "\t" -> "\\t"
            [] c = "\r" -> "\\r"
            [] c = "\f" -> "\\x0c"
            [] OTHER -> c) \o ReprChars(text, k + 1, quote)

\* repr(v), used by str() of an exception with several arguments.
Repr(v) ==
    CASE v.type = "str" -> ReprQuote(v.s) \o ReprChars(v.s, 1, ReprQuote(v.s)) \o ReprQuote(v.s)
      [] v.type = "int" -> IntToStr(v.i)
      [] v.type = "NoneType" -> "None"

\* The elements of a tuple from position k on, as repr() of the tuple lists them.
RECURSIVE ReprItems(_, _)
ReprItems(args, k) ==
    IF k > Len(args) THEN ""
    ELSE (IF k > 1 THEN ", " ELSE "") \o Repr(args[k]) \o ReprItems(args, k + 1)

-----------------------------------------------------------------------------
(* Exceptions.                                                             *)

Exc(kind, args) == [kind |-> kind, args |-> args]
NoExc == Exc("", <<>>)

\* The direct base class of an exception class.
Base(kind) ==
    CASE kind \in {"BrokenPipeError", "ConnectionAbortedError", "ConnectionRefusedError",
                   "ConnectionResetError"} -> "ConnectionError"
      [] kind \in {"gaierror", "ConnectionError", "BlockingIOError", "ChildProcessError",
                   "FileExistsError", "FileNotFoundError", "InterruptedError",
                   "IsADirectoryError", "NotADirectoryError", "PermissionError",
                   "ProcessLookupError", "TimeoutError"} -> "OSError"
      [] kind = "OSError" -> "Exception"
      [] kind = "UnicodeError" -> "ValueError"
      [] kind = "ValueError" -> "Exception"
      [] kind = "Exception" -> "BaseException"
      [] OTHER -> ""

\* isinstance(e, cls), which decides whether `except cls` catches e (lines 30, 38).
RECURSIVE IsInstance(_, _)
IsInstance(kind, cls) ==
    IF kind = "" THEN FALSE
    ELSE IF kind = cls THEN TRUE
    ELSE IsInstance(Base(kind), cls)

\* Variant of ExcStr: the arguments alone, without OSError's "[Errno n] " form.
ExcStrArgsOnly(e) ==
    IF Len(e.args) = 0 THEN "" ELSE Str(e.args[Len(e.args)])

\* str(e): what {e} inserts at lines 31 and 39.
\* An OSError built from 2 to 5 arguments (errno, strerror[, filename[,
\* winerror[, filename2]]]) reads "[Errno n] strerror", followed by the file
\* names when given; any other exception reads as its only argument, or as
\* the tuple of its arguments.
ExcStr(e) ==
    IF IsInstance(e.kind, "OSError") /\ Len(e.args) >= 2 /\ Len(e.args) <= 5
    THEN LET head == "[Errno " \o Str(e.args[1]) \o "] " \o Str(e.args[2]) IN
         IF Len(e.args) >= 3 /\ e.args[3] # PyNone
         THEN IF Len(e.args) = 5 /\ e.args[5] # PyNone
              THEN head \o ": " \o Repr(e.args[3]) \o " -> " \o Repr(e.args[5])
              ELSE head \o ": " \o Repr(e.args[3])
         ELSE head
    ELSE IF Len(e.args) = 0 THEN ""
    ELSE IF Len(e.args) = 1 THEN Str(e.args[1])
    ELSE "(" \o ReprItems(e.args, 1) \o ")"

Return(v) == [kind |-> "return", value |-> v, exc |-> NoExc]
Raise(e) == [kind |-> "raise", value |-> Unbound, exc |-> e]
NoResult == [kind |-> "none", value |-> Unbound, exc |-> NoExc]

-----------------------------------------------------------------------------
(* The resolution primitive socket.gethostbyname, called at line 28.       *)

\* The 'idna' encoding gethostbyname applies to its argument (CPython 3.11,
\* ASCII names): every label but the last must have 1..63 characters and
\* the last at most 63.  The result is the error text, "" when the name
\* encodes.
RECURSIVE IdnaError(_, _, _)
IdnaError(name, k, cur) ==
    IF k > Len(name)
    THEN (IF cur >= 64 THEN "label too long" ELSE "")
    ELSE IF SubSeq(name, k, k) = "."
    THEN (IF cur = 0 \/ cur >= 64 THEN "label empty or too long"
          ELSE IdnaError(name, k + 1, 0))
    ELSE IdnaError(name, k + 1, cur + 1)

\* What the host's name service (getaddrinfo) may answer for an encoded
\* name: a list of IPv4 addresses in text form, or an EAI_* error code;
\* with the code EAI_SYSTEM (-11) the C errno says what failed.
Addresses ==
    {"93.184.216.34", "10.0.0.1", "203.0.113.7", "127.0.0.1", "192.168.1.20", "8.8.8.8",
     "172.16.0.9", "198.51.100.23"}
AddressLists ==
    {<<a>> : a \in Addresses} \cup {<<"10.0.0.1", "8.8.8.8">>, <<"8.8.8.8", "10.0.0.1", "127.0.0.1">>}
EaiCodes == (-10)..(-1)
SystemErrnos == {2, 4, 11, 13, 24, 110, 111}
LookupAnswers ==
    {[kind |-> "addresses", list |-> l, code |-> 0, errno |-> 0] : l \in AddressLists}
        \cup {[kind |-> "eai", list |-> <<>>, code |-> c, errno |-> 0] : c \in EaiCodes}
        \cup {[kind |-> "eai", list |-> <<>>, code |-> -11, errno |-> n] : n \in SystemErrnos}

\* gai_strerror(code): the text of an EAI_* code.
GaiStrerror(code) ==
    CASE code = -1 -> "Bad value for ai_flags"
      [] code = -2 -> "Name or service not known"
      [] code = -3 -> "Temporary failure in name resolution"
      [] code = -4 -> "Non-recoverable failure in name resolution"
      [] code = -5 -> "No address associated with hostname"
      [] code = -6 -> "ai_family not supported"
      [] code = -7 -> "ai_socktype not supported"
      [] code = -8 -> "Servname not supported for ai_socktype"
      [] code = -9 -> "Address family for hostname not supported"
      [] code = -10 -> "Memory allocation failure"

\* strerror(errno): the text of a C errno (Linux, glibc).
Strerror(n) ==
    CASE n = 1 -> "Operation not permitted"
      [] n = 2 -> "No such file or directory"
      [] n = 3 -> "No such process"
      [] n = 4 -> "Interrupted system call"
      [] n = 5 -> "Input/output error"
      [] n = 6 -> "No such device or address"
      [] n = 7 -> "Argument list too long"
      [] n = 8 -> "Exec format error"
      [] n = 9 -> "Bad file descriptor"
      [] n = 10 -> "No child processes"
      [] n = 11 -> "Resource temporarily unavailable"
      [] n = 12 -> "Cannot allocate memory"
      [] n = 13 -> "Permission denied"
      [] n = 14 -> "Bad address"
      [] n = 15 -> "Block device required"
      [] n = 16 -> "Device or resource busy"
      [] n = 17 -> "File exists"
      [] n = 18 -> "Invalid cross-device link"
      [] n = 19 -> "No such device"
      [] n = 20 -> "Not a directory"
      [] n = 21 -> "Is a directory"
      [] n = 22 -> "Invalid argument"
      [] n = 23 -> "Too many open files in system"
      [] n = 24 -> "Too many open files"
      [] n = 25 -> "Inappropriate ioctl for device"
      [] n = 26 -> "Text file busy"
      [] n = 27 -> "File too large"
      [] n = 28 -> "No space left on device"
      [] n = 29 -> "Illegal seek"
      [] n = 30 -> "Read-only file system"
      [] n = 31 -> "Too many links"
      [] n = 32 -> "Broken pipe"
      [] n = 33 -> "Numerical argument out of domain"
      [] n = 34 -> "Numerical result out of range"
      [] n = 35 -> "Resource deadlock avoided"
      [] n = 36 -> "File name too long"
      [] n = 37 -> "No locks available"
      [] n = 38 -> "Function not implemented"
      [] n = 39 -> "Directory not empty"
      [] n = 40 -> "Too many levels of symbolic links"
      [] n = 42 -> "No message of desired type"
      [] n = 43 -> "Identifier removed"
      [] n = 44 -> "Channel number out of range"
      [] n = 45 -> "Level 2 not synchronized"
      [] n = 46 -> "Level 3 halted"
      [] n = 47 -> "Level 3 reset"
      [] n = 48 -> "Link number out of range"
      [] n = 49 -> "Protocol driver not attached"
      [] n = 50 -> "No CSI structure available"
      [] n = 51 -> "Level 2 halted"
      [] n = 52 -> "Invalid exchange"
      [] n = 53 -> "Invalid request descriptor"
      [] n = 54 -> "Exchange full"
      [] n = 55 -> "No anode"
      [] n = 56 -> "Invalid request code"
      [] n = 57 -> "Invalid slot"
      [] n = 59 -> "Bad font file format"
      [] n = 60 -> "Device not a stream"
      [] n = 61 -> "No data available"
      [] n = 62 -> "Timer expired"
      [] n = 63 -> "Out of streams resources"
      [] n = 64 -> "Machine is not on the network"
      [] n = 65 -> "Package not installed"
      [] n = 66 -> "Object is remote"
      [] n = 67 -> "Link has been severed"
      [] n = 68 -> "Advertise error"
      [] n = 69 -> "Srmount error"
      [] n = 70 -> "Communication error on send"
      [] n = 71 -> "Protocol error"
      [] n = 72 -> "Multihop attempted"
      [] n = 73 -> "RFS specific error"
      [] n = 74 -> "Bad message"
      [] n = 75 -> "Value too large for defined data type"
      [] n = 76 -> "Name not unique on network"
      [] n = 77 -> "File descriptor in bad state"
      [] n = 78 -> "Remote address changed"
      [] n = 79 -> "Can not access a needed shared library"
      [] n = 80 -> "Accessing a corrupted shared library"
      [] n = 81 -> ".lib section in a.out corrupted"
      [] n = 82 -> "Attempting to link in too many shared libraries"
      [] n = 83 -> "Cannot exec a shared library directly"
      [] n = 84 -> "Invalid or incomplete multibyte or wide character"
      [] n = 85 -> "Interrupted system call should be restarted"
      [] n = 86 -> "Streams pipe error"
      [] n = 87 -> "Too many users"
      [] n = 88 -> "Socket operation on non-socket"
      [] n = 89 -> "Destination address required"
      [] n = 90 -> "Message too long"
      [] n = 91 -> "Protocol wrong type for socket"
      [] n = 92 -> "Protocol not available"
      [] n = 93 -> "Protocol not supported"
      [] n = 94 -> "Socket type not supported"
      [] n = 95 -> "Operation not supported"
      [] n = 96 -> "Protocol family not supported"
      [] n = 97 -> "Address family not supported by protocol"
      [] n = 98 -> "Address already in use"
      [] n = 99 -> "Cannot assign requested address"
      [] n = 100 -> "Network is down"
      [] n = 101 -> "Network is unreachable"
      [] n = 102 -> "Network dropped connection on reset"
      [] n = 103 -> "Software caused connection abort"
      [] n = 104 -> "Connection reset by peer"
      [] n = 105 -> "No buffer space available"
      [] n = 106 -> "Transport endpoint is already connected"
      [] n = 107 -> "Transport endpoint is not connected"
      [] n = 108 -> "Cannot send after transport endpoint shutdown"
      [] n = 109 -> "Too many references: cannot splice"
      [] n = 110 -> "Connection timed out"
      [] n = 111 -> "Connection refused"
      [] n = 112 -> "Host is down"
      [] n = 113 -> "No route to host"
      [] n = 114 -> "Operation already in progress"
      [] n = 115 -> "Operation now in progress"
      [] n = 116 -> "Stale file handle"
      [] n = 117 -> "Structure needs cleaning"
      [] n = 118 -> "Not a XENIX named type file"
      [] n = 119 -> "No XENIX semaphores available"
      [] n = 120 -> "Is a named type file"
      [] n = 121 -> "Remote I/O error"
      [] n = 122 -> "Disk quota exceeded"
      [] n = 123 -> "No medium found"
      [] n = 124 -> "Wrong medium type"
      [] n = 125 -> "Operation canceled"
      [] n = 126 -> "Required key not available"
      [] n = 127 -> "Key has expired"
      [] n = 128 -> "Key has been revoked"
      [] n = 129 -> "Key was rejected by service"
      [] n = 130 -> "Owner died"
      [] n = 131 -> "State not recoverable"
      [] n = 132 -> "Operation not possible due to RF-kill"

\* The class of OSError(errno, strerror): the subclass Python maps the errno to.
OSErrorClass(n) ==
    CASE n \in {1, 13} -> "PermissionError"
      [] n \in {2} -> "FileNotFoundError"
      [] n \in {3} -> "ProcessLookupError"
      [] n \in {4} -> "InterruptedError"
      [] n \in {10} -> "ChildProcessError"
      [] n \in {11, 114, 115} -> "BlockingIOError"
      [] n \in {17} -> "FileExistsError"
      [] n \in {20} -> "NotADirectoryError"
      [] n \in {21} -> "IsADirectoryError"
      [] n \in {32, 108} -> "BrokenPipeError"
      [] n \in {103} -> "ConnectionAbortedError"
      [] n \in {104} -> "ConnectionResetError"
      [] n \in {110} -> "TimeoutError"
      [] n \in {111} -> "ConnectionRefusedError"
      [] OTHER -> "OSError"

\* socket.gethostbyname(name) when the name service answers `lookup`: a
\* name that does not encode raises UnicodeError before any lookup; a list
\* of addresses gives its first; EAI_SYSTEM raises OSError(errno,
\* strerror); any other EAI_* code raises gaierror(code, text).
gethostbyname(name, lookup) ==
    LET bad == IdnaError(name, 1, 0) IN
    IF bad # ""
    THEN Raise(Exc("UnicodeError",
                   <<PyStr("encoding with 'idna' codec failed (UnicodeError: " \o bad \o ")")>>))
    ELSE IF lookup.kind = "addresses"
    THEN Return(PyStr(lookup.list[1]))
    ELSE IF lookup.code = -11
    THEN Raise(Exc(OSErrorClass(lookup.errno),
                   <<PyInt(lookup.errno), PyStr(Strerror(lookup.errno))>>))
    ELSE Raise(Exc("gaierror", <<PyInt(lookup.code), PyStr(GaiStrerror(lookup.code))>>))

-----------------------------------------------------------------------------
(* Inputs.                                                                 *)

\* The literal of line 35.
TIKTOK_USERNAME == "80alaajutt"

\* Identifiers handed to the function: absent, empty, the literal, one with
\* surrounding blanks, one with an empty label.
Identifiers ==
    {PyNone, PyStr(""), PyStr(TIKTOK_USERNAME), PyStr(" a "), PyStr("a..b")}

-----------------------------------------------------------------------------
(* get_ip_from_tiktok_username, lines 23-31.                               *)

\* Entry of a call with argument u: fresh locals.
Enter(u) ==
    /\ username' = u
    /\ url' = Unbound
    /\ ip_address' = Unbound
    /\ exc' = NoExc
    /\ result' = NoResult
    /\ lookups' = <<>>
    /\ pc' = "L23"

\* Variant of L23: the identifier is not validated.
L23NoCheck ==
    /\ pc = "L23"
    /\ pc' = "L27"
    /\ UNCHANGED <<username, url, ip_address, exc, result, lookups, history>>
    /\ UNCHANGED driverVars

\* Lines 23-24: if not username: raise ValueError(...)
L23 ==
    /\ pc = "L23"
    /\ IF ~Truth(username)
       THEN /\ result' = Raise(Exc("ValueError", <<PyStr("Invalid TikTok username provided.")>>))
            /\ pc' = "returned"
       ELSE /\ result' = result
            /\ pc' = "L27"
    /\ UNCHANGED <<username, url, ip_address, exc, lookups, history>>
    /\ UNCHANGED driverVars

\* Variant of L27: the bare hostname is looked up.
L27BareHost ==
    /\ pc = "L27"
    /\ url' = PyStr("www.tiktok.com")
    /\ pc' = "L28"
    /\ UNCHANGED <<username, ip_address, exc, result, lookups, history>>
    /\ UNCHANGED driverVars

\* Line 27: url = f"https://www.tiktok.com/@{username}"
L27 ==
    /\ pc = "L27"
    /\ url' = PyStr("https://www.tiktok.com/@" \o Str(username))
    /\ pc' = "L28"
    /\ UNCHANGED <<username, ip_address, exc, result, lookups, history>>
    /\ UNCHANGED driverVars

\* Variant of L28: a failed lookup is tried a second time.
L28Retry ==
    /\ pc = "L28"
    /\ \E first \in LookupAnswers, second \in LookupAnswers :
         LET a1 == gethostbyname(Str(url), first)
             a2 == gethostbyname(Str(url), second) IN
         IF a1.kind = "return"
         THEN /\ lookups' = Append(lookups, [arg |-> url, answer |-> a1])
              /\ ip_address' = a1.value
              /\ exc' = exc
              /\ pc' = "L29"
         ELSE /\ lookups' = lookups \o <<[arg |-> url, answer |-> a1], [arg |-> url, answer |-> a2]>>
              /\ IF a2.kind = "return"
                 THEN /\ ip_address' = a2.value
                      /\ exc' = exc
                      /\ pc' = "L29"
                 ELSE /\ ip_address' = ip_address
                      /\ exc' = a2.exc
                      /\ pc' = "L30"
    /\ UNCHANGED <<username, url, result, history>>
    /\ UNCHANGED driverVars

\* Variant of L28: the answer of an earlier call for the same identifier is reused.
L28Cached ==
    /\ pc = "L28"
    /\ IF \E h \in DOMAIN history : history[h].username = username /\ history[h].lookups # <<>>
       THEN LET h == CHOOSE k \in DOMAIN history :
                        history[k].username = username /\ history[k].lookups # <<>>
                answer == history[h].lookups[1].answer IN
            /\ lookups' = lookups
            /\ IF answer.kind = "return"
               THEN /\ ip_address' = answer.value
                    /\ exc' = exc
                    /\ pc' = "L29"
               ELSE /\ ip_address' = ip_address
                    /\ exc' = answer.exc
                    /\ pc' = "L30"
       ELSE \E lookup \in LookupAnswers :
            LET answer == gethostbyname(Str(url), lookup) IN
            /\ lookups' = Append(lookups, [arg |-> url, answer |-> answer])
            /\ IF answer.kind = "return"
               THEN /\ ip_address' = answer.value
                    /\ exc' = exc
                    /\ pc' = "L29"
               ELSE /\ ip_address' = ip_address
                    /\ exc' = answer.exc
                    /\ pc' = "L30"
    /\ UNCHANGED <<username, url, result, history>>
    /\ UNCHANGED driverVars

\* Line 28: ip_address = socket.gethostbyname(url)
L28 ==
    /\ pc = "L28"
    /\ \E lookup \in LookupAnswers :
         LET answer == gethostbyname(Str(url), lookup) IN
         /\ lookups' = Append(lookups, [arg |-> url, answer |-> answer])
         /\ IF answer.kind = "return"
            THEN /\ ip_address' = answer.value
                 /\ exc' = exc
                 /\ pc' = "L29"
            ELSE /\ ip_address' = ip_address
                 /\ exc' = answer.exc
                 /\ pc' = "L30"
    /\ UNCHANGED <<username, url, result, history>>
    /\ UNCHANGED driverVars

\* Line 29: return ip_address
L29 ==
    /\ pc = "L29"
    /\ result' = Return(ip_address)
    /\ pc' = "returned"
    /\ UNCHANGED <<username, url, ip_address, exc, lookups, history>>
    /\ UNCHANGED driverVars

\* Line 30: except socket.gaierror as e -- any other exception leaves the function as it is.
L30 ==
    /\ pc = "L30"
    /\ IF IsInstance(exc.kind, "gaierror")
       THEN /\ result' = result
            /\ pc' = "L31"
       ELSE /\ result' = Raise(exc)
            /\ pc' = "returned"
    /\ UNCHANGED <<username, url, ip_address, exc, lookups, history>>
    /\ UNCHANGED driverVars

\* Variant of L31: the message names the identifier but drops the cause.
L31NoCause ==
    /\ pc = "L31"
    /\ result' = Raise(Exc("gaierror",
                     <<PyStr("Error getting IP address for " \o Str(username))>>))
    /\ pc' = "returned"
    /\ UNCHANGED <<username, url, ip_address, exc, lookups, history>>
    /\ UNCHANGED driverVars

\* Line 31: raise socket.gaierror(f"Error getting IP address for {username}: {e}")
L31 ==
    /\ pc = "L31"
    /\ result' = Raise(Exc("gaierror",
                     <<PyStr("Error getting IP address for " \o Str(username) \o ": " \o ExcStr(exc))>>))
    /\ pc' = "returned"
    /\ UNCHANGED <<username, url, ip_address, exc, lookups, history>>
    /\ UNCHANGED driverVars

-----------------------------------------------------------------------------
(* Spec: a caller that invokes the function repeatedly.                    *)

Init ==
    /\ pc = "idle"
    /\ username = Unbound
    /\ url = Unbound
    /\ ip_address = Unbound
    /\ exc = NoExc
    /\ result = NoResult
    /\ lookups = <<>>
    /\ history = <<>>
    /\ tiktok_username = Unbound
    /\ main_ip_address = Unbound
    /\ stdout = <<>>
    /\ exit_status = -1

\* get_ip_from_tiktok_username(u) is called.
Call ==
    /\ pc = "idle"
    /\ Len(history) < MaxCalls
    /\ \E u \in Identifiers : Enter(u)
    /\ UNCHANGED history
    /\ UNCHANGED driverVars

\* The call is over (value returned or exception raised); the caller notes it.
Finish ==
    /\ pc = "returned"
    /\ history' = Append(history, [username |-> username, lookups |-> lookups, result |-> result])
    /\ pc' = "idle"
    /\ UNCHANGED funcLocals
    /\ UNCHANGED driverVars

Next == Call \/ L23 \/ L27 \/ L28 \/ L29 \/ L30 \/ L31 \/ Finish

Spec == Init /\ [][Next]_vars

-----------------------------------------------------------------------------
(* DriverSpec: the module-level statements, lines 34-39.                   *)

DriverInit ==
    /\ pc = "L35"
    /\ username = Unbound
    /\ url = Unbound
    /\ ip_address = Unbound
    /\ exc = NoExc
    /\ result = NoResult
    /\ lookups = <<>>
    /\ history = <<>>
    /\ tiktok_username = Unbound
    /\ main_ip_address = Unbound
    /\ stdout = <<>>
    /\ exit_status = -1

\* Line 35: tiktok_username = "80alaajutt"
L35 ==
    /\ pc = "L35"
    /\ tiktok_username' = PyStr(TIKTOK_USERNAME)
    /\ pc' = "L36"
    /\ UNCHANGED <<main_ip_address, stdout, exit_status, history>>
    /\ UNCHANGED funcLocals

\* Line 36, the call: get_ip_from_tiktok_username(tiktok_username)
L36 ==
    /\ pc = "L36"
    /\ Enter(tiktok_username)
    /\ UNCHANGED history
    /\ UNCHANGED driverVars

\* Line 36, after the call: bind ip_address, or leave the try body with the exception.
L36Return ==
    /\ pc = "returned"
    /\ history' = Append(history, [username |-> username, lookups |-> lookups, result |-> result])
    /\ IF result.kind = "return"
       THEN /\ main_ip_address' = result.value
            /\ pc' = "L37"
       ELSE /\ main_ip_address' = main_ip_address
            /\ pc' = "L38"
    /\ UNCHANGED <<tiktok_username, stdout, exit_status>>
    /\ UNCHANGED funcLocals

\* Variant of L37: the looked-up string is printed in place of the address.
L37PrintsUrl ==
    /\ pc = "L37"
    /\ stdout' = Append(stdout, "The IP address for TikTok username '" \o Str(tiktok_username)
                                  \o "' is: " \o Str(url))
    /\ pc' = "exit"
    /\ exit_status' = 0
    /\ UNCHANGED <<tiktok_username, main_ip_address, history>>
    /\ UNCHANGED funcLocals

\* Line 37: print(f"The IP address for TikTok username '{tiktok_username}' is: {ip_address}")
L37 ==
    /\ pc = "L37"
    /\ stdout' = Append(stdout, "The IP address for TikTok username '" \o Str(tiktok_username)
                                  \o "' is: " \o Str(main_ip_address))
    /\ pc' = "exit"
    /\ exit_status' = 0
    /\ UNCHANGED <<tiktok_username, main_ip_address, history>>
    /\ UNCHANGED funcLocals

\* Variant of L38: `except Exception` -- every ordinary exception is caught.
L38CatchAll ==
    /\ pc = "L38"
    /\ IF IsInstance(result.exc.kind, "Exception")
       THEN /\ pc' = "L39"
            /\ exit_status' = exit_status
       ELSE /\ pc' = "exit"
            /\ exit_status' = 1
    /\ UNCHANGED <<tiktok_username, main_ip_address, stdout, history>>
    /\ UNCHANGED funcLocals

\* Line 38: except (ValueError, socket.gaierror) as e -- an exception of
\* neither class is not caught: the interpreter reports it on standard
\* error and the process ends with status 1.
L38 ==
    /\ pc = "L38"
    /\ IF IsInstance(result.exc.kind, "ValueError") \/ IsInstance(result.exc.kind, "gaierror")
       THEN /\ pc' = "L39"
            /\ exit_status' = exit_status
       ELSE /\ pc' = "exit"
            /\ exit_status' = 1
    /\ UNCHANGED <<tiktok_username, main_ip_address, stdout, history>>
    /\ UNCHANGED funcLocals

\* Variant of L39: the failure is reported and the process exits with status 1.
L39ExitOne ==
    /\ pc = "L39"
    /\ stdout' = Append(stdout, "Error: " \o ExcStr(result.exc))
    /\ pc' = "exit"
    /\ exit_status' = 1
    /\ UNCHANGED <<tiktok_username, main_ip_address, history>>
    /\ UNCHANGED funcLocals

\* Line 39: print(f"Error: {e}")
L39 ==
    /\ pc = "L39"
    /\ stdout' = Append(stdout, "Error: " \o ExcStr(result.exc))
    /\ pc' = "exit"
    /\ exit_status' = 0
    /\ UNCHANGED <<tiktok_username, main_ip_address, history>>
    /\ UNCHANGED funcLocals

DriverNext ==
    L35 \/ L36 \/ L23 \/ L27 \/ L28 \/ L29 \/ L30 \/ L31 \/ L36Return \/ L37 \/ L38 \/ L39

DriverSpec == DriverInit /\ [][DriverNext]_vars

\* A sequential interpreter always executes the statement it is at.
DriverFairSpec == DriverSpec /\ WF_vars(DriverNext)

-----------------------------------------------------------------------------
(* ScenarioSpec: the invoke-and-report sequence of lines 36-39 on a given  *)
(* identifier.  No run of the script is in this state with an identifier   *)
(* other than the literal: line 35 is left out and the identifier is an    *)
(* input, as in the end-to-end scenario that supplies "".                  *)

ScenarioInit ==
    /\ pc = "L36"
    /\ username = Unbound
    /\ url = Unbound
    /\ ip_address = Unbound
    /\ exc = NoExc
    /\ result = NoResult
    /\ lookups = <<>>
    /\ history = <<>>
    /\ tiktok_username \in Identifiers
    /\ main_ip_address = Unbound
    /\ stdout = <<>>
    /\ exit_status = -1

ScenarioNext ==
    L36 \/ L23 \/ L27 \/ L28 \/ L29 \/ L30 \/ L31 \/ L36Return \/ L37 \/ L38 \/ L39

ScenarioSpec == ScenarioInit /\ [][ScenarioNext]_vars

-----------------------------------------------------------------------------
(* Vocabulary of the properties, written out independently of the          *)
(* operators above.                                                        *)

\* The calls that are over: those in history, and the current one once it has ended.
Ended ==
    {history[k] : k \in DOMAIN history}
        \cup (IF pc = "returned"
              THEN {[username |-> username, lookups |-> lookups, result |-> result]}
              ELSE {})

EmptyOrAbsent(u) == u = PyNone \/ u = PyStr("")
NonEmpty(u) == u.type = "str" /\ u.s # ""

\* The invalid-input error of line 24.
InvalidInput == Raise(Exc("ValueError", <<PyStr("Invalid TikTok username provided.")>>))

\* The text of the underlying cause of each failure of the resolution call:
\* the resolution errors, then the system errors.
CauseText(e) ==
    CASE e = Exc("gaierror", <<PyInt(-1), PyStr("Bad value for ai_flags")>>)
           -> "[Errno -1] Bad value for ai_flags"
      [] e = Exc("gaierror", <<PyInt(-2), PyStr("Name or service not known")>>)
           -> "[Errno -2] Name or service not known"
      [] e = Exc("gaierror", <<PyInt(-3), PyStr("Temporary failure in name resolution")>>)
           -> "[Errno -3] Temporary failure in name resolution"
      [] e = Exc("gaierror", <<PyInt(-4), PyStr("Non-recoverable failure in name resolution")>>)
           -> "[Errno -4] Non-recoverable failure in name resolution"
      [] e = Exc("gaierror", <<PyInt(-5), PyStr("No address associated with hostname")>>)
           -> "[Errno -5] No address associated with hostname"
      [] e = Exc("gaierror", <<PyInt(-6), PyStr("ai_family not supported")>>)
           -> "[Errno -6] ai_family not supported"
      [] e = Exc("gaierror", <<PyInt(-7), PyStr("ai_socktype not supported")>>)
           -> "[Errno -7] ai_socktype not supported"
      [] e = Exc("gaierror", <<PyInt(-8), PyStr("Servname not supported for ai_socktype")>>)
           -> "[Errno -8] Servname not supported for ai_socktype"
      [] e = Exc("gaierror", <<PyInt(-9), PyStr("Address family for hostname not supported")>>)
           -> "[Errno -9] Address family for hostname not supported"
      [] e = Exc("gaierror", <<PyInt(-10), PyStr("Memory allocation failure")>>)
           -> "[Errno -10] Memory allocation failure"
      [] e = Exc("FileNotFoundError", <<PyInt(2), PyStr("No such file or directory")>>)
           -> "[Errno 2] No such file or directory"
      [] e = Exc("InterruptedError", <<PyInt(4), PyStr("Interrupted system call")>>)
           -> "[Errno 4] Interrupted system call"
      [] e = Exc("BlockingIOError", <<PyInt(11), PyStr("Resource temporarily unavailable")>>)
           -> "[Errno 11] Resource temporarily unavailable"
      [] e = Exc("PermissionError", <<PyInt(13), PyStr("Permission denied")>>)
           -> "[Errno 13] Permission denied"
      [] e = Exc("OSError", <<PyInt(24), PyStr("Too many open files")>>)
           -> "[Errno 24] Too many open files"
      [] e = Exc("TimeoutError", <<PyInt(110), PyStr("Connection timed out")>>)
           -> "[Errno 110] Connection timed out"
      [] e = Exc("ConnectionRefusedError", <<PyInt(111), PyStr("Connection refused")>>)
           -> "[Errno 111] Connection refused"

\* Whether text has part as a contiguous substring.
Contains(text, part) ==
    \E k \in 1..(Len(text) - Len(part) + 1) : SubSeq(text, k, k + Len(part) - 1) = part

\* The message of a raised error built from one text argument.
Message(e) == e.args[1].s

\* The error kinds the driver's except clause names, and their subclasses here.
CaughtKinds == {"ValueError", "UnicodeError", "gaierror"}

\* A position inside the body of the function.
InFunction == pc \in {"L23", "L27", "L28", "L29", "L30", "L31", "returned"}

-----------------------------------------------------------------------------
(* Properties of get_ip_from_tiktok_username (checked under Spec).         *)

\* C1: a call with an empty or absent identifier fails with the
\* invalid-input error (ValueError), it never gets past the validation, and
\* the resolution primitive has been invoked zero times when the error is
\* raised.
C1_EmptyIdentifierFailsBeforeLookup ==
    /\ (InFunction /\ EmptyOrAbsent(username)) => (pc \in {"L23", "returned"} /\ lookups = <<>>)
    /\ \A c \in Ended : EmptyOrAbsent(c.username) => (c.result = InvalidInput /\ c.lookups = <<>>)

C1_Witness ==
    /\ Len(history) = 2
    /\ history[1].username = PyNone /\ history[1].result = InvalidInput
    /\ history[2].username = PyStr("") /\ history[2].result = InvalidInput

\* C2 (as stated): a call with a non-empty identifier invokes the primitive
\* exactly once on the constructed string and either returns a non-empty
\* text address or raises the resolution error -- nothing else.
C2_Original ==
    \A c \in Ended : NonEmpty(c.username) =>
        /\ Len(c.lookups) = 1
        /\ c.lookups[1].arg = PyStr("https://www.tiktok.com/@" \o c.username.s)
        /\ \/ c.result.kind = "return" /\ c.result.value.type = "str" /\ c.result.value.s # ""
           \/ c.result.kind = "raise" /\ c.result.exc.kind = "gaierror"

\* C2 (amended): a call with a non-empty identifier invokes the primitive
\* exactly once (never twice while it runs, exactly once when it is over)
\* on the constructed string, and ends in exactly one of three ways: it
\* returns the non-empty address the primitive returned; it raises the
\* resolution error, when the primitive failed with one; or, when the
\* primitive failed with an error of another kind, that error leaves the
\* function unchanged.
C2_OneLookupThreeOutcomes ==
    /\ Len(lookups) <= 1
    /\ \A c \in Ended : NonEmpty(c.username) =>
        /\ Len(c.lookups) = 1
        /\ c.lookups[1].arg = PyStr("https://www.tiktok.com/@" \o c.username.s)
        /\ LET a == c.lookups[1].answer IN
           \/ /\ a.kind = "return"
              /\ c.result = Return(a.value)
              /\ a.value.type = "str" /\ a.value.s # ""
           \/ /\ a.kind = "raise" /\ a.exc.kind = "gaierror"
              /\ c.result.kind = "raise" /\ c.result.exc.kind = "gaierror"
           \/ /\ a.kind = "raise" /\ a.exc.kind # "gaierror"
              /\ c.result = Raise(a.exc)

C2_Witness ==
    /\ Len(history) = 2
    /\ history[1].username = PyStr(" a ") /\ history[1].result = Return(PyStr("10.0.0.1"))
    /\ history[2].username = PyStr("a..b") /\ history[2].result.kind = "raise"
    /\ history[2].result.exc.kind = "UnicodeError" /\ Len(history[2].lookups) = 1

\* C3: when the primitive fails with a resolution error of cause c for a
\* non-empty identifier u, the function raises a resolution error whose
\* message contains u unchanged and contains c.
C3_ResolutionErrorCarriesIdentifierAndCause ==
    \A c \in Ended :
        (/\ NonEmpty(c.username)
         /\ c.lookups # <<>>
         /\ c.lookups[1].answer.kind = "raise"
         /\ c.lookups[1].answer.exc.kind = "gaierror") =>
            /\ c.result.kind = "raise"
            /\ c.result.exc.kind = "gaierror"
            /\ Len(c.result.exc.args) = 1
            /\ Contains(Message(c.result.exc), c.username.s)
            /\ Contains(Message(c.result.exc), CauseText(c.lookups[1].answer.exc))

C3_Witness ==
    /\ pc = "returned"
    /\ username = PyStr(" a ")
    /\ result.kind = "raise"
    /\ Message(result.exc)
         = "Error getting IP address for  a : [Errno -3] Temporary failure in name resolution"

\* C8: for a non-empty identifier u the argument handed to the primitive is
\* the full URL text "https://www.tiktok.com/@" followed by u as given; it
\* is never the bare hostname, and u is neither trimmed nor checked.
C8_LookupArgumentIsFullUrl ==
    /\ \A k \in DOMAIN lookups :
          /\ lookups[k].arg = PyStr("https://www.tiktok.com/@" \o username.s)
          /\ lookups[k].arg # PyStr("www.tiktok.com")
    /\ \A c \in Ended : NonEmpty(c.username) =>
          /\ c.lookups # <<>>
          /\ \A k \in DOMAIN c.lookups :
                /\ c.lookups[k].arg = PyStr("https://www.tiktok.com/@" \o c.username.s)
                /\ c.lookups[k].arg # PyStr("www.tiktok.com")

C8_Witness ==
    /\ Len(history) = 2
    /\ history[1].username = PyStr(" a ")
    /\ history[1].lookups[1].arg = PyStr("https://www.tiktok.com/@ a ")
    /\ history[2].username = PyStr(TIKTOK_USERNAME)
    /\ history[2].lookups[1].arg = PyStr("https://www.tiktok.com/@80alaajutt")

\* C9: the function keeps no state between calls: every call with a
\* non-empty identifier makes its own lookup, whatever calls came before,
\* and two calls with the same identifier whose lookups were answered the
\* same way end the same way.
C9_NoStateBetweenCalls ==
    /\ \A k \in DOMAIN history :
          NonEmpty(history[k].username) => Len(history[k].lookups) = 1
    /\ \A j, k \in DOMAIN history :
          (history[j].username = history[k].username /\ history[j].lookups = history[k].lookups)
              => history[j].result = history[k].result

C9_Witness ==
    /\ Len(history) = 2
    /\ history[1].username = PyStr(TIKTOK_USERNAME)
    /\ history[2].username = PyStr(TIKTOK_USERNAME)
    /\ history[1].result.kind = "raise"
    /\ history[2].result.kind = "return"
    /\ Len(history[2].lookups) = 1

-----------------------------------------------------------------------------
(* Properties of the driver (checked under DriverSpec; C7, whose           *)
(* identifier is not the script's, under ScenarioSpec).                    *)

\* The one call the driver has made, once it is over.
TheCall == history[1]

\* C4 (as stated): the program prints exactly one line in every run, the
\* success line or the error line.
C4_Original ==
    (pc = "exit" /\ tiktok_username = PyStr(TIKTOK_USERNAME)) =>
        /\ Len(stdout) = 1
        /\ \/ /\ TheCall.result.kind = "return"
              /\ stdout[1] = "The IP address for TikTok username '80alaajutt' is: "
                                \o TheCall.lookups[1].answer.value.s
           \/ /\ TheCall.result.kind = "raise"
              /\ stdout[1] = "Error: " \o Message(TheCall.result.exc)

\* C4 (amended): a run in which the call returns, or fails with a ValueError
\* or a resolution error, writes exactly one line: the success line with
\* the driver's identifier and the very address the primitive returned, or
\* "Error: " and the message of the raised error, never both.  A run in
\* which the call fails with an error of another kind writes nothing to
\* standard output.  No run writes more than one line.
C4_OneLineUnlessUncaught ==
    /\ Len(stdout) <= 1
    /\ pc # "exit" => stdout = <<>>
    /\ pc = "exit" =>
          \/ /\ TheCall.result.kind = "return"
             /\ stdout = << "The IP address for TikTok username '" \o tiktok_username.s
                              \o "' is: " \o TheCall.lookups[1].answer.value.s >>
          \/ /\ TheCall.result.kind = "raise"
             /\ TheCall.result.exc.kind \in CaughtKinds
             /\ stdout = << "Error: " \o Message(TheCall.result.exc) >>
          \/ /\ TheCall.result.kind = "raise"
             /\ TheCall.result.exc.kind \notin CaughtKinds
             /\ stdout = <<>>

C4_Witness ==
    /\ pc = "exit"
    /\ tiktok_username = PyStr(TIKTOK_USERNAME)
    /\ stdout = <<"The IP address for TikTok username '80alaajutt' is: 93.184.216.34">>

\* C5 (as stated): every run ends, after one invocation, with a line
\* printed and the same normal exit status whatever the outcome.
C5_Original ==
    pc = "exit" =>
        /\ Len(history) = 1
        /\ Len(stdout) = 1
        /\ exit_status = 0

\* What holds of the end state in the amended C5.
C5_EndState ==
    pc = "exit" =>
        /\ Len(history) = 1
        /\ IF TheCall.result.kind = "return" \/ TheCall.result.exc.kind \in CaughtKinds
           THEN Len(stdout) = 1 /\ exit_status = 0
           ELSE stdout = <<>> /\ exit_status = 1

\* C5 (amended): every run of the driver terminates after a single
\* invocation of the function and a failure is never retried.  When the
\* address is returned, or the invalid-input error or the resolution error
\* is raised, the driver prints one line and ends normally with the same
\* exit status 0.  When the call fails with an error of another kind, the
\* run ends with nothing printed and exit status 1, which does tell that
\* failure from success.
C5_TerminatesAfterOneInvocation ==
    /\ [](Len(history) <= 1)
    /\ [](pc = "L36" => history = <<>>)
    /\ [](Len(lookups) <= 1)
    /\ []C5_EndState
    /\ <>(pc = "exit")

C5_Witness ==
    /\ pc = "exit"
    /\ exit_status = 0
    /\ Len(history) = 1
    /\ TheCall.result.kind = "raise"
    /\ TheCall.result.exc.kind = "gaierror"
    /\ Len(TheCall.lookups) = 1

\* C6 (as stated): with identifier "80alaajutt", when the resolution call
\* fails with underlying cause c, the driver prints exactly
\* "Error: Error getting IP address for 80alaajutt: " followed by c, and
\* no success line.
C6_Original ==
    (/\ pc = "exit"
     /\ tiktok_username = PyStr("80alaajutt")
     /\ TheCall.lookups # <<>>
     /\ TheCall.lookups[1].answer.kind = "raise") =>
        stdout = << "Error: Error getting IP address for 80alaajutt: "
                       \o CauseText(TheCall.lookups[1].answer.exc) >>

\* C6 (amended): with identifier "80alaajutt", when the resolution call
\* fails with a resolution error (socket.gaierror) of cause c, the driver
\* prints exactly "Error: Error getting IP address for 80alaajutt: "
\* followed by c, and no success line.
C6_LiteralResolutionFailureLine ==
    (/\ pc = "exit"
     /\ tiktok_username = PyStr("80alaajutt")
     /\ TheCall.lookups # <<>>
     /\ TheCall.lookups[1].answer.kind = "raise"
     /\ TheCall.lookups[1].answer.exc.kind = "gaierror") =>
        stdout = << "Error: Error getting IP address for 80alaajutt: "
                       \o CauseText(TheCall.lookups[1].answer.exc) >>

C6_Witness ==
    /\ pc = "exit"
    /\ stdout = <<"Error: Error getting IP address for 80alaajutt: [Errno -2] Name or service not known">>

\* C7: with the empty identifier the invalid-input error is raised, the
\* driver prints exactly "Error: Invalid TikTok username provided.", and no
\* resolution call is made at any point of the run.
C7_EmptyIdentifierEndToEnd ==
    tiktok_username = PyStr("") =>
        /\ lookups = <<>>
        /\ pc \notin {"L27", "L28", "L29", "L30", "L31", "L37"}
        /\ pc = "exit" =>
              /\ TheCall.result = InvalidInput
              /\ TheCall.lookups = <<>>
              /\ stdout = <<"Error: Invalid TikTok username provided.">>
              /\ exit_status = 0

C7_Witness ==
    /\ pc = "exit"
    /\ tiktok_username = PyStr("")
    /\ stdout = <<"Error: Invalid TikTok username provided.">>

\* The primitive failed with an error that is neither a ValueError nor a
\* gaierror.
OtherKindFailure ==
    /\ TheCall.lookups # <<>>
    /\ TheCall.lookups[1].answer.kind = "raise"
    /\ TheCall.lookups[1].answer.exc.kind \notin {"ValueError", "gaierror"}

\* C10: when the primitive fails with an error kind other than ValueError
\* and gaierror, the function passes it on as it is (same kind, same
\* arguments, no identifier added) and the driver does not catch it: the
\* run ends with neither the success line nor an "Error: " line printed.
C10_OtherKindsNotHandled ==
    (pc = "exit" /\ OtherKindFailure) =>
        /\ TheCall.result = Raise(TheCall.lookups[1].answer.exc)
        /\ stdout = <<>>
        /\ exit_status = 1

C10_Witness ==
    /\ pc = "exit"
    /\ OtherKindFailure
    /\ TheCall.lookups[1].answer.exc.kind = "OSError"
    /\ TheCall.result.exc = Exc("OSError", <<PyInt(24), PyStr("Too many open files")>>)
    /\ stdout = <<>>
    /\ exit_status = 1

====
